---- MODULE Spec2Model ----
(***************************************************************************)
(* Monte Carlo engine of pf_liquidity_risk: run_simulation /               *)
(* run_simulation_cached drive PFInvestmentModel.simulate_path over the    *)
(* process-wide numpy random stream.                                       *)
(*                                                                         *)
(* Number representation.  The code computes in binary floating point;    *)
(* the model computes in fixed point and rounds every quotient toward     *)
(* minus infinity:                                                         *)
(*   money            integer units                                        *)
(*   interest rates   percent per year      (0.14  -> 14)                  *)
(*   cap_rate         per mille             (0.055 -> 55)                  *)
(*   LTV, exit cost   percent               (0.80  -> 80)                  *)
(*   capitalization   tenths                (0.4   -> 4)                   *)
(*   irr              the pair (total return, months): the value is        *)
(*                    (ret_num/ret_den)^(12/months) - 1                    *)
(*   exit_multiple    the fraction num/den                                 *)
(***************************************************************************)
EXTENDS Integers, Sequences, FiniteSets, TLC

\* ------------------------------------------------------------------ bounds
\* Number of quantile levels a random variate is drawn from.
Levels == 2
\* Seeds handed to np.random.seed are 0..MaxSeed.
MaxSeed == 127
\* iterations is 1..MaxIterations.
MaxIterations == 2

\* ------------------------------------------------------- numpy random stream
\* The draw sites of one trial, in program order (train.py lines 41, 42, 44,
\* 45, 48, 98, 124).
DrawSites ==
    <<"pre_refi_rate", "post_refi_rate", "sampled_stab_rev", "sampled_post_rev",
      "completion_delay", "ltv_limit", "exit_cost">>

RECURSIVE Pow(_, _)
Pow(b, e) == IF e = 0 THEN 1 ELSE b * Pow(b, e - 1)

\* np.random.seed(seed) fixes the whole stream.  The variate at position pos
\* of the stream of a seed is the digit of the seed in base Levels at pos
\* (cyclic over the draw sites), so the seeds 0..Levels^7-1 enumerate every
\* combination of variates of one trial.
Stream(s, pos) == (s \div Pow(Levels, pos % Len(DrawSites))) % Levels

\* np.random.seed: the stream restarts at its first variate.
NpRandomSeedSkipped(pos) == pos
NpRandomSeed(pos) == 0

\* Drawing n variates moves the stream on by n positions.
StreamAdvancedSkipping(pos, n) == pos + n + 1
StreamAdvanced(pos, n) == pos + n

\* np.random.triangular(left, mode, right) raises ValueError unless
\* left <= mode <= right and left < right.
TriangularValid(d) == d[1] <= d[2] /\ d[2] <= d[3] /\ d[1] # d[3]

\* A triangular sample lies in [left, right); the mode shapes the density
\* only.  Variate u of Levels picks the point of the grid over [left, right).
Triangular(d, u) == d[1] + ((d[3] - d[1]) * u) \div Levels

\* np.random.uniform(low, high) = low + (high - low) * U, U in [0, 1); no
\* validation of low <= high.
Uniform(r, u) == r[1] + ((r[2] - r[1]) * u) \div Levels

\* ------------------------------------------------------------ configuration
\* The dataclass PFConfig with its declared defaults and __post_init__.
PFConfig(initial_equity, senior_loan, monthly_fixed_cost, stabilization_revenue_dist, post_court_revenue_dist, timeline) ==
    [ initial_equity             |-> initial_equity,
      senior_loan                |-> senior_loan,
      monthly_fixed_cost         |-> monthly_fixed_cost,
      stabilization_revenue_dist |-> stabilization_revenue_dist,
      post_court_revenue_dist    |-> post_court_revenue_dist,
      cap_rate                   |-> 55,
      completion_target_month    |-> timeline[1],
      court_opening_month        |-> timeline[2],
      exit_month                 |-> timeline[3],
      pre_completion_rate        |-> <<10, 14, 18>>,
      stabilization_rate         |-> <<8, 11, 14>>,
      post_court_rate            |-> <<5, 7, 9>>,
      target_refi_ltv_dist       |-> <<70, 80, 85>>,
      exit_cost_range            |-> <<1, 2>>,
      capitalized_ratio_map      |->
          [construction |-> 10, stabilization |-> 4, exit |-> 0] ]

\* The fields a PFConfig instance has after construction.
PFConfigFields == DOMAIN PFConfig(1, 1, 0, <<0, 0, 1>>, <<0, 0, 1>>, <<1, 2, 3>>)

\* getattr: an attribute the object does not carry raises AttributeError.
HasAttr(c, name) == name \in DOMAIN c

\* PFConfig is neither frozen nor slotted: a caller can hand run_simulation an
\* instance on which it has set further attributes.
WithAttrs(c, extra) == extra @@ c

\* The data-model invariant of a Scenario Configuration.
TripleOrdered(d) == d[1] <= d[2] /\ d[2] <= d[3]

ValidConfiguration(c) ==
    /\ c.initial_equity > 0
    /\ c.senior_loan > 0
    /\ c.monthly_fixed_cost >= 0
    /\ 1 <= c.completion_target_month
    /\ c.completion_target_month < c.court_opening_month
    /\ c.court_opening_month < c.exit_month
    /\ \A f \in {"stabilization_revenue_dist", "post_court_revenue_dist",
                 "pre_completion_rate", "stabilization_rate", "post_court_rate",
                 "target_refi_ltv_dist"} : TripleOrdered(c[f])
    /\ \A f \in {"pre_refi_rate", "post_refi_rate"} \cap DOMAIN c : TripleOrdered(c[f])
    /\ c.exit_cost_range[1] <= c.exit_cost_range[2]

\* ------------------------------------------------------------------- state
VARIABLES
    cfg,         \* the config argument of run_simulation (self.cfg of the model)
    iterations,  \* the iterations argument
    seed,        \* the seed argument
    rngPos,      \* position of the process-wide numpy stream
    pc,          \* control position of the call
    frame,       \* the locals of the running simulate_path call
    results,     \* the list of outcome records built so far
    raised,      \* the exception that left run_simulation, "none" if none
    drawLog,     \* per trial, the variates the trial has drawn
    prev,        \* the previous call of run_simulation and what it returned
    report       \* what the caller has reported of the returned batch

vars == <<cfg, iterations, seed, rngPos, pc, frame, results, raised, drawLog, prev, report>>

\* No simulate_path call is active.
NoFrame ==
    [ equity |-> 0, principal |-> 0, revenue_history |-> <<>>,
      principal_at_refi |-> 0, refi_loan_amount |-> 0,
      pre_refi_rate |-> 0, post_refi_rate |-> 0,
      sampled_stab_rev |-> 0, sampled_post_rev |-> 0,
      completion_month |-> 0, delay |-> 0, refi_month |-> 0,
      refinanced |-> FALSE, current_rate |-> 0,
      m |-> 0, phase |-> "none", revenue |-> 0 ]

Max(a, b) == IF a >= b THEN a ELSE b

\* irr as the pair it is computed from: (ret_num/ret_den)^(12/months) - 1.
Irr(ret_num, ret_den, months) == [ret_num |-> ret_num, ret_den |-> ret_den, months |-> months]
\* The literal -1.0.
IrrTotalLoss == Irr(0, 1, 12)
\* The literal 0.0.
IrrZero == Irr(1, 1, 12)

\* Line 130 subtracts 1 in double precision: x - 1 is -1.0 as soon as
\* x = (ret_num/ret_den)^(12/months) <= 2^-54, that is as soon as
\* ret_num^2 * 2^(9 * months) <= ret_den^2.  Beyond 30 bits the power exceeds
\* the square of every equity of Configs, so no pair of the model is absorbed
\* there.
IrrAbsorbed(ret_num, ret_den, months) ==
    /\ 9 * months < 31
    /\ ret_num < ret_den
    /\ ret_num * ret_num <= (ret_den * ret_den) \div Pow(2, 9 * months)

\* irr = (total_return ** (1 / years)) - 1, lines 128-130.
AnnualizedReturn(ret_num, ret_den, months) ==
    IF IrrAbsorbed(ret_num, ret_den, months)
    THEN IrrTotalLoss
    ELSE Irr(ret_num, ret_den, months)

\* ------------------------------------------------- simulate_path, lines 33-56
\* The first statement of lines 41-45 that raises, in program order.
SampleError(c) ==
    IF ~HasAttr(c, "pre_refi_rate") THEN "AttributeError"
    ELSE IF ~TriangularValid(c.pre_refi_rate) THEN "ValueError"
    ELSE IF ~HasAttr(c, "post_refi_rate") THEN "AttributeError"
    ELSE IF ~TriangularValid(c.post_refi_rate) THEN "ValueError"
    ELSE IF ~TriangularValid(c.stabilization_revenue_dist) THEN "ValueError"
    ELSE IF ~TriangularValid(c.post_court_revenue_dist) THEN "ValueError"
    ELSE "none"

\* completion_target_month + int(np.random.triangular(0, 2, 6))
CompletionMonth(c, u) == c.completion_target_month + Triangular(<<0, 2, 6>>, u)

\* refi_month = completion_month + 3
RefiMonthEarly(completion_month) == completion_month + 2
RefiMonth(completion_month) == completion_month + 3

\* The locals after line 56, the stream being at position pos.
NewFrameEquityFloored(c, s, pos) ==
    LET completion_month == CompletionMonth(c, Stream(s, pos + 4))
        pre_refi_rate == Triangular(c.pre_refi_rate, Stream(s, pos))
    IN  [ equity |-> Max(1, c.initial_equity - c.monthly_fixed_cost),
          principal |-> c.senior_loan,
          revenue_history |-> <<>>,
          principal_at_refi |-> 0,
          refi_loan_amount |-> 0,
          pre_refi_rate |-> pre_refi_rate,
          post_refi_rate |-> Triangular(c.post_refi_rate, Stream(s, pos + 1)),
          sampled_stab_rev |-> Triangular(c.stabilization_revenue_dist, Stream(s, pos + 2)),
          sampled_post_rev |-> Triangular(c.post_court_revenue_dist, Stream(s, pos + 3)),
          completion_month |-> completion_month,
          delay |-> Max(0, completion_month - c.completion_target_month),
          refi_month |-> RefiMonth(completion_month),
          refinanced |-> FALSE,
          current_rate |-> pre_refi_rate,
          m |-> 1, phase |-> "none", revenue |-> 0 ]
NewFrame(c, s, pos) ==
    LET completion_month == CompletionMonth(c, Stream(s, pos + 4))
        pre_refi_rate == Triangular(c.pre_refi_rate, Stream(s, pos))
    IN  [ equity |-> c.initial_equity,
          principal |-> c.senior_loan,
          revenue_history |-> <<>>,
          principal_at_refi |-> 0,
          refi_loan_amount |-> 0,
          pre_refi_rate |-> pre_refi_rate,
          post_refi_rate |-> Triangular(c.post_refi_rate, Stream(s, pos + 1)),
          sampled_stab_rev |-> Triangular(c.stabilization_revenue_dist, Stream(s, pos + 2)),
          sampled_post_rev |-> Triangular(c.post_court_revenue_dist, Stream(s, pos + 3)),
          completion_month |-> completion_month,
          delay |-> Max(0, completion_month - c.completion_target_month),
          refi_month |-> RefiMonth(completion_month),
          refinanced |-> FALSE,
          current_rate |-> pre_refi_rate,
          m |-> 1, phase |-> "none", revenue |-> 0 ]

\* ------------------------------------------------- simulate_path, lines 59-90
\* Phase determination, lines 60-65.
PhaseCourtFirst(c, f) ==
    IF f.m >= c.court_opening_month THEN "exit"
    ELSE IF f.m < f.completion_month THEN "construction"
    ELSE "stabilization"
Phase(c, f) ==
    IF f.m < f.completion_month THEN "construction"
    ELSE IF f.m < c.court_opening_month THEN "stabilization"
    ELSE "exit"

Revenue(c, f) ==
    IF f.m < f.completion_month THEN 0
    ELSE IF f.m < c.court_opening_month THEN f.sampled_stab_rev
    ELSE f.sampled_post_rev

\* interest = principal * (current_rate / 12), lines 70-71.
Interest(f) == (f.principal * f.current_rate) \div 1200

\* paid_interest = interest * (1 - cap_ratio), line 74.
PaidInterestInFull(interest, cap_ratio) == interest
PaidInterest(interest, cap_ratio) == (interest * (10 - cap_ratio)) \div 10

\* interest * cap_ratio, line 75.
CapitalizedInterest(interest, cap_ratio) == (interest * cap_ratio) \div 10

\* delay * monthly_fixed_cost * 0.6, line 90.
DelayPenaltyUndiscounted(c, f) == f.delay * c.monthly_fixed_cost
DelayPenalty(c, f) == (f.delay * c.monthly_fixed_cost * 6) \div 10

\* net_cash_flow = revenue - (monthly_fixed_cost + paid_interest), line 78.
NetCashFlowCostAdded(c, revenue, paid_interest) == revenue + c.monthly_fixed_cost - paid_interest
NetCashFlow(c, revenue, paid_interest) == revenue - (c.monthly_fixed_cost + paid_interest)

\* The principal sweep of lines 81-85: principal -= net_cash_flow, floored
\* at 0.
SweptPrincipalUnfloored(principal, net_cash_flow) == principal - net_cash_flow
SweptPrincipal(principal, net_cash_flow) ==
    IF principal - net_cash_flow < 0 THEN 0 ELSE principal - net_cash_flow

\* One pass over lines 59-90 for month f.m.
MonthCashFlowExcessDropped(c, f) ==
    LET phase == Phase(c, f)
        revenue == Revenue(c, f)
        interest == Interest(f)
        cap_ratio == c.capitalized_ratio_map[phase]
        paid_interest == PaidInterest(interest, cap_ratio)
        principal1 == f.principal + CapitalizedInterest(interest, cap_ratio)
        net_cash_flow == NetCashFlow(c, revenue, paid_interest)
        swept == principal1 - net_cash_flow
        principal2 == IF net_cash_flow > 0 THEN SweptPrincipal(principal1, net_cash_flow) ELSE principal1
        equity2 ==
            IF net_cash_flow > 0
            THEN f.equity
            ELSE f.equity + net_cash_flow
        equity3 ==
            IF f.m = f.completion_month /\ f.delay > 0
            THEN equity2 - DelayPenalty(c, f)
            ELSE equity2
    IN  [f EXCEPT !.phase = phase, !.revenue = revenue,
                  !.revenue_history = Append(f.revenue_history, revenue),
                  !.principal = principal2, !.equity = equity3]
MonthCashFlow(c, f) ==
    LET phase == Phase(c, f)
        revenue == Revenue(c, f)
        interest == Interest(f)
        cap_ratio == c.capitalized_ratio_map[phase]
        paid_interest == PaidInterest(interest, cap_ratio)
        principal1 == f.principal + CapitalizedInterest(interest, cap_ratio)
        net_cash_flow == NetCashFlow(c, revenue, paid_interest)
        swept == principal1 - net_cash_flow
        principal2 == IF net_cash_flow > 0 THEN SweptPrincipal(principal1, net_cash_flow) ELSE principal1
        equity2 ==
            IF net_cash_flow > 0
            THEN (IF swept < 0 THEN f.equity - swept ELSE f.equity)
            ELSE f.equity + net_cash_flow
        equity3 ==
            IF f.m = f.completion_month /\ f.delay > 0
            THEN equity2 - DelayPenalty(c, f)
            ELSE equity2
    IN  [f EXCEPT !.phase = phase, !.revenue = revenue,
                  !.revenue_history = Append(f.revenue_history, revenue),
                  !.principal = principal2, !.equity = equity3]

\* ------------------------------------------------ simulate_path, lines 92-143
\* The insolvency test of line 93.
InsolventBelowZero(f) == f.equity < 0
Insolvent(f) == f.equity <= 0

\* The default record of line 94.
DefaultRecordEquityKept(f) ==
    [status |-> "default", month |-> f.m, final_equity |-> f.equity, irr |-> IrrTotalLoss]
DefaultRecord(f) ==
    [status |-> "default", month |-> f.m, final_equity |-> 0, irr |-> IrrTotalLoss]

\* revenue_history[-3:] filtered by rev > 0, lines 99-100.
LastThree(h) == SubSeq(h, Max(1, Len(h) - 2), Len(h))

OperatingHistoryNonZero(h) == SelectSeq(LastThree(h), LAMBDA rev : rev # 0)
OperatingHistory(h) == SelectSeq(LastThree(h), LAMBDA rev : rev > 0)

RECURSIVE SeqSum(_)
SeqSum(q) == IF q = <<>> THEN 0 ELSE Head(q) + SeqSum(Tail(q))

RollingNoi(f) ==
    LET operating_history == OperatingHistory(f.revenue_history)
    IN  IF operating_history # <<>>
        THEN SeqSum(operating_history) \div Len(operating_history)
        ELSE f.revenue

\* implied_val = (rolling_noi * 12) / cap_rate, line 101.
ImpliedVal(c, f) == (RollingNoi(f) * 12 * 1000) \div c.cap_rate

\* max_refi_loan = implied_val * ltv_limit, line 103.
MaxRefiLoan(c, f, ltv_limit) == (ImpliedVal(c, f) * ltv_limit) \div 100

\* The refinancing test of line 107.
RefiFails(c, f, ltv_limit) == f.principal > MaxRefiLoan(c, f, ltv_limit)

RefiFailRecord(c, f, ltv_limit) ==
    [status |-> "refi_fail", month |-> f.m, final_equity |-> 0, irr |-> IrrTotalLoss,
     principal_at_refi |-> f.principal,
     refi_loan_amount |-> MaxRefiLoan(c, f, ltv_limit)]

\* Lines 104-105 and 118-119.
RefinancedRateKept(c, f, ltv_limit) ==
    [f EXCEPT !.principal_at_refi = f.principal,
              !.refi_loan_amount = MaxRefiLoan(c, f, ltv_limit),
              !.refinanced = TRUE]
Refinanced(c, f, ltv_limit) ==
    [f EXCEPT !.principal_at_refi = f.principal,
              !.refi_loan_amount = MaxRefiLoan(c, f, ltv_limit),
              !.refinanced = TRUE,
              !.current_rate = f.post_refi_rate]

\* final_val = (revenue * 12) / cap_rate, line 123.
FinalValMonthly(c, f) == (f.revenue * 1000) \div c.cap_rate
FinalVal(c, f) == (f.revenue * 12 * 1000) \div c.cap_rate

\* exit_equity = final_val - principal - exit_cost, lines 124-125.
ExitEquity(c, f, cost_fraction) ==
    FinalVal(c, f) - f.principal - ((FinalVal(c, f) * cost_fraction) \div 100)

\* exit_equity / initial_equity if exit_equity > 0 else 0, line 136.
ExitMultipleUnfloored(c, exit_equity) == [num |-> exit_equity, den |-> c.initial_equity]
ExitMultiple(c, exit_equity) ==
    IF exit_equity > 0
    THEN [num |-> exit_equity, den |-> c.initial_equity]
    ELSE [num |-> 0, den |-> 1]

\* max(0, exit_equity), line 135.
FinalEquityUnfloored(exit_equity) == exit_equity
FinalEquity(exit_equity) == Max(0, exit_equity)

\* Lines 127-138.
ExitRecord(c, f, cost_fraction) ==
    LET exit_equity == ExitEquity(c, f, cost_fraction)
    IN  [status |-> "exit", month |-> f.m,
         final_equity |-> FinalEquity(exit_equity),
         irr |-> IF exit_equity > 0
                 THEN AnnualizedReturn(exit_equity, c.initial_equity, f.m)
                 ELSE IrrTotalLoss,
         exit_multiple |-> ExitMultiple(c, exit_equity),
         principal_at_refi |-> f.principal_at_refi,
         refi_loan_amount |-> f.refi_loan_amount]

\* The exit test of line 122.
IsExitMonthPastLoop(c, f) == f.m = c.exit_month + 1
IsExitMonth(c, f) == f.m = c.exit_month

\* Lines 140-143.
SurvivedRecord(c, f) ==
    [status |-> "survived_no_exit", month |-> c.exit_month,
     final_equity |-> f.equity, irr |-> IrrZero,
     principal_at_refi |-> f.principal_at_refi,
     refi_loan_amount |-> f.refi_loan_amount]

\* ------------------------------------------------------------ risk reporting
\* exit_df = df[df["status"] == "exit"], train.py line 254 (app.py line 730).
ExitDf(recs) == SelectSeq(recs, LAMBDA r : r.status = "exit")

\* loss = initial_equity - df["final_equity"], train.py line 285.
Loss(c, recs) == [k \in 1..Len(recs) |-> c.initial_equity - recs[k].final_equity]

\* np.percentile sorts its argument.
Insert(x, q) ==
    SelectSeq(q, LAMBDA y : y <= x) \o <<x>> \o SelectSeq(q, LAMBDA y : y > x)

RECURSIVE Sorted(_)
Sorted(q) == IF q = <<>> THEN <<>> ELSE Insert(Head(q), Sorted(Tail(q)))

\* np.percentile(a, q): linear interpolation between the order statistics
\* around the position (n - 1) * q / 100.
Percentile(a, q) ==
    LET s == Sorted(a)
        pos == (Len(s) - 1) * q
        i == pos \div 100
        fraction == pos % 100
    IN  IF fraction = 0
        THEN s[i + 1]
        ELSE s[i + 1] + ((s[i + 2] - s[i + 1]) * fraction) \div 100

\* exit_df["irr"]
IrrColumn(recs) == [k \in 1..Len(ExitDf(recs)) |-> ExitDf(recs)[k].irr]

\* exit_df["irr"].std() > 0: the sample standard deviation is NaN for one
\* value (the comparison is then false), 0 when all values are equal.  Within
\* one batch two irr values are equal exactly when their pairs are.
IrrStdPositive(irrs) == \E i, j \in 1..Len(irrs) : irrs[i] # irrs[j]

\* The guard of the Sharpe ratio, train.py line 297 and app.py line 854.
SharpeGuardStdUnchecked(recs) == Len(ExitDf(recs)) > 0
SharpeGuard(recs) == Len(ExitDf(recs)) > 0 /\ IrrStdPositive(IrrColumn(recs))

\* The constant 0 the dashboard reports instead (app.py line 857), and no
\* Sharpe line printed (train.py lines 297-299).
SharpeZero == [ratio |-> "0", irr |-> <<>>]
SharpeNotPrinted == [ratio |-> "not printed", irr |-> <<>>]

\* exit_df["irr"].mean() / exit_df["irr"].std(), kept as the quotient of the
\* two statistics of the column; a column without spread divides by zero.
MeanOverStd(irrs) ==
    [ratio |-> IF IrrStdPositive(irrs) THEN "mean/std" ELSE "division by zero",
     irr |-> irrs]

\* app.py lines 854-857.
Sharpe(recs) == IF SharpeGuard(recs) THEN MeanOverStd(IrrColumn(recs)) ELSE SharpeZero

\* train.py lines 297-299.
SharpeLine(recs) == IF SharpeGuard(recs) THEN MeanOverStd(IrrColumn(recs)) ELSE SharpeNotPrinted

\* months = np.arange(1, 37), train.py line 211 and app.py line 394.
SurvivalMonths == 36

\* failed = df[df["status"].isin(["default", "refi_fail"]) & (df["month"] <= m)]
FailedInMonth(recs, m) ==
    SelectSeq(recs, LAMBDA r : r.status \in {"default", "refi_fail"} /\ r.month = m)
Failed(recs, m) ==
    SelectSeq(recs, LAMBDA r : r.status \in {"default", "refi_fail"} /\ r.month <= m)

\* survival_rates: (iterations - len(failed)) / iterations for every month,
\* kept as the fraction num/den.
SurvivalRates(recs, n) ==
    [m \in 1..SurvivalMonths |-> [num |-> n - Len(Failed(recs, m)), den |-> n]]

\* Nothing reported yet.
NoReport == [by |-> "none", car |-> <<>>, sharpe |-> SharpeNotPrinted, survival_rates |-> <<>>]

\* ------------------------------------------------------------ configurations
\* configs/public_config.py, in hundredths of an index point.
PublicConfig ==
    PFConfig(10000, 33930, 179, <<89, 214, 268>>, <<214, 357, 446>>, <<16, 24, 36>>)

\* The attributes simulate_path reads at lines 41-42, set by a caller.
RefiRates == [pre_refi_rate |-> <<10, 14, 18>>, post_refi_rate |-> <<5, 7, 9>>]

\* A levered project on a short timeline: completion 2 (+ delay), court
\* opening 6, exit 8.
ShortConfig ==
    WithAttrs(PFConfig(150, 3000, 20, <<10, 24, 40>>, <<12, 36, 60>>, <<2, 6, 8>>), RefiRates)

\* The same project with exit right after court opening: the refinancing
\* month lies after exit_month.
TightConfig ==
    WithAttrs(PFConfig(150, 3000, 20, <<10, 24, 40>>, <<12, 36, 60>>, <<1, 2, 3>>), RefiRates)

\* Timeline months not increasing, exit_month 0.
BadTimelineConfig ==
    WithAttrs(PFConfig(150, 3000, 20, <<10, 24, 40>>, <<12, 36, 60>>, <<2, 1, 0>>), RefiRates)

\* min > mode in the LTV distribution.
BadLtvConfig ==
    [ShortConfig EXCEPT !.target_refi_ltv_dist = <<85, 80, 70>>]

\* min > mode in a revenue distribution.
BadRevenueConfig ==
    [ShortConfig EXCEPT !.stabilization_revenue_dist = <<40, 24, 10>>]

\* initial_equity not positive.
BadEquityConfig ==
    [ShortConfig EXCEPT !.initial_equity = 0]

\* The degenerate scenario: both revenue distributions fixed at (0, 0, 0).
ZeroRevenueConfig ==
    WithAttrs(PFConfig(150, 3000, 20, <<0, 0, 0>>, <<0, 0, 0>>, <<2, 6, 8>>), RefiRates)

\* Revenue below one money unit in every phase: every sample is 0.
NoRevenueConfig ==
    WithAttrs(PFConfig(150, 3000, 20, <<0, 0, 1>>, <<0, 0, 1>>, <<2, 6, 8>>), RefiRates)

\* The same with equity that outlasts the fixed costs up to the refinancing
\* month.
NoRevenueFundedConfig ==
    WithAttrs(PFConfig(400, 3000, 20, <<0, 0, 1>>, <<0, 0, 1>>, <<2, 6, 8>>), RefiRates)

\* The same with exit right after court opening: the refinancing month lies
\* after exit_month.
NoRevenueTightConfig ==
    WithAttrs(PFConfig(400, 3000, 20, <<0, 0, 1>>, <<0, 0, 1>>, <<4, 5, 6>>), RefiRates)

\* Stabilization revenue that just carries the loan, no revenue after court
\* opening, thin equity.
SweepConfig ==
    WithAttrs(PFConfig(30, 3000, 2, <<20, 20, 21>>, <<0, 0, 1>>, <<2, 6, 8>>), RefiRates)

\* A stabilization phase that can run at a loss (revenue net of operating
\* cost below 0), court opening in the third month after the target
\* completion.
NegativeRevenueConfig ==
    WithAttrs(PFConfig(400, 3000, 20, <<-10, 5, 30>>, <<12, 36, 60>>, <<2, 5, 8>>), RefiRates)

\* A small loan that the cash sweep repays within the stabilization phase.
LowLeverageConfig ==
    WithAttrs(PFConfig(150, 30, 5, <<10, 24, 40>>, <<12, 36, 60>>, <<2, 6, 8>>), RefiRates)

\* Interest-rate triples that reach below zero.
NegativeRates == [pre_refi_rate |-> <<-4, 2, 8>>, post_refi_rate |-> <<-2, 1, 4>>]

NegativeRateConfig ==
    WithAttrs(PFConfig(150, 3000, 20, <<10, 24, 40>>, <<12, 36, 60>>, <<2, 6, 8>>), NegativeRates)

\* Exit three months in, on equity large against the exit proceeds: the sale
\* leaves a few units above the loan.
ThinExitConfig ==
    WithAttrs(PFConfig(40000, 2579, 20, <<10, 24, 40>>, <<12, 36, 60>>, <<1, 2, 3>>), RefiRates)

\* Exit four months after the completion target: a path completed on time
\* reaches its refinancing month, a delayed one exits before it.
EarlyExitConfig ==
    WithAttrs(PFConfig(400, 1000, 20, <<10, 24, 40>>, <<12, 36, 60>>, <<2, 4, 6>>), RefiRates)

Configs ==
    <<PublicConfig, SweepConfig, ShortConfig, TightConfig, BadTimelineConfig, BadLtvConfig,
      BadRevenueConfig, BadEquityConfig, ZeroRevenueConfig, NoRevenueConfig,
      NoRevenueFundedConfig, NoRevenueTightConfig, NegativeRevenueConfig,
      LowLeverageConfig, NegativeRateConfig, ThinExitConfig, EarlyExitConfig>>

\* ------------------------------------------------------------------ actions
NoCall ==
    [called |-> FALSE, monthly_fixed_cost |-> 0, results |-> <<>>, raised |-> "none",
     drawLog |-> <<>>]

Init ==
    /\ \E i \in 1..Len(Configs) : cfg = Configs[i]
    /\ iterations \in 1..MaxIterations
    /\ seed \in 0..MaxSeed
    /\ rngPos = 0
    /\ pc = "call"
    /\ frame = NoFrame
    /\ results = <<>>
    /\ raised = "none"
    /\ drawLog = <<>>
    /\ prev = NoCall
    /\ report = NoReport

\* run_simulation lines 152-157 (run_simulation_cached lines 293-295).
RunSimulation ==
    /\ pc = "call"
    /\ rngPos' = NpRandomSeed(rngPos)
    /\ pc' = "batch"
    /\ UNCHANGED <<cfg, iterations, seed, frame, results, raised, drawLog, prev, report>>

\* The list comprehension of line 158 calls simulate_path once more.
StartTrial ==
    /\ pc = "batch"
    /\ Len(results) < iterations
    /\ pc' = "sample"
    /\ UNCHANGED <<cfg, iterations, seed, rngPos, frame, results, raised, drawLog, prev, report>>

\* Line 159: the batch is complete and returned.
ReturnResults ==
    /\ pc = "batch"
    /\ Len(results) >= iterations
    /\ pc' = "returned"
    /\ UNCHANGED <<cfg, iterations, seed, rngPos, frame, results, raised, drawLog, prev, report>>

\* An exception leaves simulate_path, the list comprehension and
\* run_simulation: nothing catches it, and the list built so far is dropped
\* with the comprehension.
Raise(e) ==
    /\ raised' = e
    /\ pc' = "raised"
    /\ frame' = NoFrame
    /\ results' = <<>>

\* simulate_path returns rec to the list comprehension.
Return(rec) ==
    /\ results' = Append(results, rec)
    /\ frame' = NoFrame
    /\ pc' = "batch"

\* The variates a trial draws at stream positions pos .. pos+n-1.
Variates(s, pos, n) == [k \in 1..n |-> Stream(s, pos + k - 1)]

\* Lines 41-45 raise.
SamplePathRaises ==
    /\ pc = "sample"
    /\ SampleError(cfg) # "none"
    /\ Raise(SampleError(cfg))
    /\ UNCHANGED <<cfg, iterations, seed, rngPos, drawLog, prev, report>>

\* Lines 33-58: the locals are set, five variates are drawn, the loop starts.
SamplePath ==
    /\ pc = "sample"
    /\ SampleError(cfg) = "none"
    /\ frame' = NewFrame(cfg, seed, rngPos)
    /\ rngPos' = StreamAdvanced(rngPos, 5)
    /\ drawLog' = Append(drawLog, Variates(seed, rngPos, 5))
    /\ pc' = IF 1 <= cfg.exit_month THEN "cash" ELSE "fallout"
    /\ UNCHANGED <<cfg, iterations, seed, results, raised, prev, report>>

\* Lines 59-90 of month m.
CashFlowThenRefinancing ==
    /\ pc = "cash"
    /\ frame' = MonthCashFlow(cfg, frame)
    /\ pc' = "refi"
    /\ UNCHANGED <<cfg, iterations, seed, rngPos, results, raised, drawLog, prev, report>>
CashFlow ==
    /\ pc = "cash"
    /\ frame' = MonthCashFlow(cfg, frame)
    /\ pc' = "insolvency"
    /\ UNCHANGED <<cfg, iterations, seed, rngPos, results, raised, drawLog, prev, report>>

\* Lines 93-94.
InsolvencyDefault ==
    /\ pc = "insolvency"
    /\ Insolvent(frame)
    /\ Return(DefaultRecord(frame))
    /\ UNCHANGED <<cfg, iterations, seed, rngPos, raised, drawLog, prev, report>>

InsolvencyPass ==
    /\ pc = "insolvency"
    /\ ~Insolvent(frame)
    /\ pc' = "refi"
    /\ UNCHANGED <<cfg, iterations, seed, rngPos, frame, results, raised, drawLog, prev, report>>

\* Line 97, not the refinancing month.
RefiSkip ==
    /\ pc = "refi"
    /\ frame.m # frame.refi_month
    /\ pc' = "exit"
    /\ UNCHANGED <<cfg, iterations, seed, rngPos, frame, results, raised, drawLog, prev, report>>

\* Line 98 raises on an invalid LTV distribution.
RefiRaises ==
    /\ pc = "refi"
    /\ frame.m = frame.refi_month
    /\ ~TriangularValid(cfg.target_refi_ltv_dist)
    /\ Raise("ValueError")
    /\ UNCHANGED <<cfg, iterations, seed, rngPos, drawLog, prev, report>>

\* The variate a draw appends to the log of the running trial.
Logged(log, u) == [log EXCEPT ![Len(log)] = Append(log[Len(log)], u)]

\* Lines 97-115: refinancing fails.
RefiFail ==
    /\ pc = "refi"
    /\ frame.m = frame.refi_month
    /\ TriangularValid(cfg.target_refi_ltv_dist)
    /\ LET ltv_limit == Triangular(cfg.target_refi_ltv_dist, Stream(seed, rngPos))
       IN  /\ RefiFails(cfg, frame, ltv_limit)
           /\ Return(RefiFailRecord(cfg, frame, ltv_limit))
    /\ rngPos' = StreamAdvanced(rngPos, 1)
    /\ drawLog' = Logged(drawLog, Stream(seed, rngPos))
    /\ UNCHANGED <<cfg, iterations, seed, raised, prev, report>>

\* Lines 97-119: refinancing succeeds.
RefiPass ==
    /\ pc = "refi"
    /\ frame.m = frame.refi_month
    /\ TriangularValid(cfg.target_refi_ltv_dist)
    /\ LET ltv_limit == Triangular(cfg.target_refi_ltv_dist, Stream(seed, rngPos))
       IN  /\ ~RefiFails(cfg, frame, ltv_limit)
           /\ frame' = Refinanced(cfg, frame, ltv_limit)
    /\ rngPos' = StreamAdvanced(rngPos, 1)
    /\ drawLog' = Logged(drawLog, Stream(seed, rngPos))
    /\ pc' = "exit"
    /\ UNCHANGED <<cfg, iterations, seed, results, raised, prev, report>>

\* Lines 122-138.
ExitTransaction ==
    /\ pc = "exit"
    /\ IsExitMonth(cfg, frame)
    /\ Return(ExitRecord(cfg, frame, Uniform(cfg.exit_cost_range, Stream(seed, rngPos))))
    /\ rngPos' = StreamAdvanced(rngPos, 1)
    /\ drawLog' = Logged(drawLog, Stream(seed, rngPos))
    /\ UNCHANGED <<cfg, iterations, seed, raised, prev, report>>

\* Line 58: the loop takes the next month, or ends.
NextMonth ==
    /\ pc = "exit"
    /\ ~IsExitMonth(cfg, frame)
    /\ frame' = [frame EXCEPT !.m = frame.m + 1]
    /\ pc' = IF frame.m + 1 <= cfg.exit_month THEN "cash" ELSE "fallout"
    /\ UNCHANGED <<cfg, iterations, seed, rngPos, results, raised, drawLog, prev, report>>

\* Lines 140-143: the loop ended without a return.
LoopFallout ==
    /\ pc = "fallout"
    /\ Return(SurvivedRecord(cfg, frame))
    /\ UNCHANGED <<cfg, iterations, seed, rngPos, raised, drawLog, prev, report>>

Next ==
    \/ RunSimulation
    \/ StartTrial
    \/ ReturnResults
    \/ SamplePathRaises
    \/ SamplePath
    \/ CashFlow
    \/ InsolvencyDefault
    \/ InsolvencyPass
    \/ RefiSkip
    \/ RefiRaises
    \/ RefiFail
    \/ RefiPass
    \/ ExitTransaction
    \/ NextMonth
    \/ LoopFallout

Spec == Init /\ [][Next]_vars

\* ------------------------------------------------------- a second call
\* By how much the caller raises monthly_fixed_cost for the second call.
MaxCostRise == 2

\* The call that has ended, as the caller keeps it.
EndedCall ==
    [called |-> TRUE, monthly_fixed_cost |-> cfg.monthly_fixed_cost,
     results |-> results, raised |-> raised, drawLog |-> drawLog]

\* The caller runs the simulation again with the same config, iterations and
\* seed, in the same process.
RunAgain ==
    /\ pc \in {"returned", "raised"}
    /\ ~prev.called
    /\ prev' = EndedCall
    /\ results' = <<>>
    /\ raised' = "none"
    /\ drawLog' = <<>>
    /\ pc' = "call"
    /\ UNCHANGED <<cfg, iterations, seed, rngPos, frame, report>>

\* The caller runs it again with a config that differs in a higher
\* monthly_fixed_cost only.
RunAgainCostlier ==
    /\ pc \in {"returned", "raised"}
    /\ ~prev.called
    /\ \E rise \in 1..MaxCostRise :
          cfg' = [cfg EXCEPT !.monthly_fixed_cost = cfg.monthly_fixed_cost + rise]
    /\ prev' = EndedCall
    /\ results' = <<>>
    /\ raised' = "none"
    /\ drawLog' = <<>>
    /\ pc' = "call"
    /\ UNCHANGED <<iterations, seed, rngPos, frame, report>>

NextRerun ==
    \/ Next
    \/ RunAgain
    \/ RunAgainCostlier

SpecRerun == Init /\ [][NextRerun]_vars

\* ------------------------------------------------------- reporting a batch
\* train.py main line 319: print_summary_table(df, cfg).
PrintSummaryTable ==
    /\ pc = "returned"
    /\ report' = [by |-> "print_summary_table",
                  car |-> <<Percentile(Loss(cfg, results), 95),
                            Percentile(Loss(cfg, results), 99)>>,
                  sharpe |-> SharpeLine(results),
                  survival_rates |-> <<>>]
    /\ pc' = "summarised"
    /\ UNCHANGED <<cfg, iterations, seed, rngPos, frame, results, raised, drawLog, prev>>

\* train.py main line 322: plot_enhanced_results(df, iterations, cfg).
PlotEnhancedResults ==
    /\ pc = "summarised"
    /\ report' = [report EXCEPT !.survival_rates = SurvivalRates(results, iterations)]
    /\ pc' = "plotted"
    /\ UNCHANGED <<cfg, iterations, seed, rngPos, frame, results, raised, drawLog, prev>>

\* app.py main lines 723-870: the metrics, charts and risk tables of the
\* dashboard.
Dashboard ==
    /\ pc = "returned"
    /\ report' = [by |-> "dashboard",
                  car |-> <<Percentile(Loss(cfg, results), 90),
                            Percentile(Loss(cfg, results), 95),
                            Percentile(Loss(cfg, results), 99)>>,
                  sharpe |-> Sharpe(results),
                  survival_rates |-> SurvivalRates(results, iterations)]
    /\ pc' = "displayed"
    /\ UNCHANGED <<cfg, iterations, seed, rngPos, frame, results, raised, drawLog, prev>>

NextReport ==
    \/ Next
    \/ PrintSummaryTable
    \/ PlotEnhancedResults
    \/ Dashboard

SpecReport == Init /\ [][NextReport]_vars

\* ================================================================== claims
Statuses == {"exit", "default", "refi_fail", "survived_no_exit"}

CallEnded == pc \in {"returned", "raised"}

\* C1: for every valid configuration and every trial_count > 0, a call of
\* run_simulation returns exactly trial_count records, each with one of the
\* four statuses.
C1_ReturnsTrialCountRecords ==
    (ValidConfiguration(cfg) /\ CallEnded) =>
        /\ pc = "returned"
        /\ Len(results) = iterations
        /\ \A k \in 1..Len(results) : results[k].status \in Statuses

\* C3: for every configuration that satisfies the data-model invariants no
\* hard error propagates to the caller of simulate_path.
C3_NoHardError ==
    ValidConfiguration(cfg) => raised = "none"

\* C4: a configuration that violates a data-model invariant is rejected with
\* InvalidConfiguration before any trial runs, and no record is produced.
C4_InvalidConfigurationRejected ==
    ~ValidConfiguration(cfg) =>
        /\ frame = NoFrame
        /\ results = <<>>
        /\ raised \in {"none", "InvalidConfiguration"}

\* Control is inside simulate_path.
TrialPcs == {"sample", "cash", "insolvency", "refi", "exit", "fallout"}

\* C5: every trial terminates after at most exit_month monthly iterations
\* and returns exactly one record; no month is processed after the month in
\* which a terminal status was determined.
C5_TrialReturnsOneRecord ==
    [][(ValidConfiguration(cfg) /\ pc \in TrialPcs /\ pc' \notin TrialPcs) =>
          /\ pc' = "batch"
          /\ Len(results') = Len(results) + 1
          /\ Len(frame.revenue_history) <= cfg.exit_month
          /\ frame' = NoFrame]_vars

\* C8: the month of a record is the loop month in which its status was
\* determined: it lies in [1, exit_month], an exit record has month
\* exit_month and a refi_fail record has month completion_month + 3.
C8_RecordMonth ==
    [][(ValidConfiguration(cfg) /\ Len(results') = Len(results) + 1) =>
          LET r == results'[Len(results')]
          IN  /\ r.month \in 1..cfg.exit_month
              /\ r.month = Len(frame.revenue_history)
              /\ (r.status = "exit" => r.month = cfg.exit_month)
              /\ (r.status = "refi_fail" => r.month = frame.completion_month + 3)]_vars

C8_Witness ==
    /\ ValidConfiguration(cfg)
    /\ Len(results) = 2
    /\ results[1].status = "refi_fail"
    /\ results[2].status = "exit"

\* C9: for every exit record exit_multiple >= 0, and when final_equity > 0
\* exit_multiple = final_equity / initial_equity.
C9_ExitMultiple ==
    ValidConfiguration(cfg) =>
        \A k \in 1..Len(results) :
            results[k].status = "exit" =>
                LET r == results[k]
                IN  /\ r.exit_multiple.den > 0
                    /\ r.exit_multiple.num >= 0
                    /\ (r.final_equity > 0 =>
                          r.exit_multiple.num * cfg.initial_equity
                              = r.final_equity * r.exit_multiple.den)

C9_Witness ==
    /\ ValidConfiguration(cfg)
    /\ Len(results) = 2
    /\ results[1].status = "exit" /\ results[1].final_equity > 0
    /\ results[2].status = "exit" /\ results[2].final_equity = 0

\* C10: in a live path equity is strictly positive wherever control is past
\* the insolvency check of a month: at the refinancing check, at the exit
\* valuation and at the start of every later month.
C10_LiveEquityPositive ==
    (pc \in {"refi", "exit"} \/ (pc = "cash" /\ frame.m > 1)) => frame.equity > 0

C10_Witness ==
    /\ pc = "exit"
    /\ frame.m = cfg.exit_month
    /\ frame.refinanced
    /\ frame.equity > 0
    /\ frame.equity < cfg.initial_equity

\* The call is the second of two with identical arguments.
SameArguments == prev.called /\ prev.monthly_fixed_cost = cfg.monthly_fixed_cost

\* C2: two executions of run_simulation with identical (config, iterations,
\* seed) produce identical sequences of records, field by field (and end the
\* same way).
C2_Deterministic ==
    (SameArguments /\ CallEnded) =>
        /\ raised = prev.raised
        /\ Len(results) = Len(prev.results)
        /\ \A k \in 1..Len(results) : results[k] = prev.results[k]

C2_Witness ==
    /\ SameArguments
    /\ pc = "returned"
    /\ Len(results) = 2
    /\ results = prev.results
    /\ results[1].status = "refi_fail"
    /\ results[2].status = "exit"

\* Two batches that differ only in monthly_fixed_cost (c1 < c2), with every
\* random draw identical: a path that ends earlier draws a prefix.
IsPrefix(a, b) == Len(a) <= Len(b) /\ SubSeq(b, 1, Len(a)) = a

SameDraws ==
    /\ Len(drawLog) = Len(prev.drawLog)
    /\ \A k \in 1..Len(drawLog) :
          IsPrefix(drawLog[k], prev.drawLog[k]) \/ IsPrefix(prev.drawLog[k], drawLog[k])

CostRaised ==
    /\ prev.called
    /\ prev.monthly_fixed_cost < cfg.monthly_fixed_cost
    /\ pc = "returned"
    /\ prev.raised = "none"
    /\ SameDraws

Count(recs, S) == Cardinality({k \in 1..Len(recs) : recs[k].status \in S})

\* C6 as stated: the number of default records under c2 is at least the
\* number under c1.
C6_DefaultCountMonotone ==
    CostRaised => Count(results, {"default"}) >= Count(prev.results, {"default"})

\* C6 amended: the number of records that end default or refi_fail under c2
\* is at least the number under c1.
C6_FailureCountMonotone ==
    CostRaised =>
        Count(results, {"default", "refi_fail"})
            >= Count(prev.results, {"default", "refi_fail"})

C6_Witness ==
    /\ CostRaised
    /\ Len(results) = 2
    /\ prev.results[1].status = "default"
    /\ results[1].status = "refi_fail"

\* A path of a valid configuration whose stabilization and post-opening
\* revenue are both 0 returns its record.
ZeroRevenuePathEnds ==
    /\ ValidConfiguration(cfg)
    /\ Len(results') = Len(results) + 1
    /\ frame.sampled_stab_rev = 0
    /\ frame.sampled_post_rev = 0

C11_LossBounded ==
    cfg.initial_equity > 0 =>
        /\ \A k \in 1..Len(results) : results[k].final_equity >= 0
        /\ \A k \in 1..Len(results) : Loss(cfg, results)[k] <= cfg.initial_equity
        /\ \A k \in 1..Len(report.car) : report.car[k] <= cfg.initial_equity
        /\ pc = "returned" =>
              \A q \in 0..100 : Percentile(Loss(cfg, results), q) <= cfg.initial_equity

C11_Witness ==
    /\ report.by = "print_summary_table"
    /\ Len(results) = 2
    /\ results[1].status = "exit" /\ results[1].final_equity > 0
    /\ results[2].status = "exit" /\ results[2].final_equity = 0
    /\ report.car[1] < report.car[2]
    /\ report.car[2] < cfg.initial_equity

\* C12: for a fixed batch of records the survival-rate curve (for every
\* month m of 1..36 the fraction of all trials without a default or refi_fail
\* record of month <= m) is non-increasing in m and every value lies in
\* [0, 1].
C12_SurvivalCurve ==
    LET rates == report.survival_rates
    IN  /\ \A m \in 1..Len(rates) :
              /\ rates[m].den = Len(results)
              /\ rates[m].den > 0
              /\ 0 <= rates[m].num
              /\ rates[m].num <= rates[m].den
              /\ rates[m].num = Len(results)
                     - Cardinality({k \in 1..Len(results) :
                                      /\ results[k].status \in {"default", "refi_fail"}
                                      /\ results[k].month <= m})
        /\ \A m \in 1..(Len(rates) - 1) : rates[m + 1].num <= rates[m].num

C12_Witness ==
    /\ Len(report.survival_rates) = SurvivalMonths
    /\ Len(results) = 2
    /\ \E a, b \in 1..(SurvivalMonths - 1) :
          /\ a < b
          /\ report.survival_rates[a].num = 2
          /\ report.survival_rates[a + 1].num = 1
          /\ report.survival_rates[b].num = 1
          /\ report.survival_rates[b + 1].num = 0

\* C13: for every configuration with exit_month >= 1 simulate_path never
\* returns survived_no_exit: the loop never ends without a return, and a
\* path that is alive in month exit_month is given status exit.
C13_NoSurvivedNoExit ==
    cfg.exit_month >= 1 =>
        /\ pc # "fallout"
        /\ \A k \in 1..Len(results) : results[k].status # "survived_no_exit"
        /\ (pc = "exit" /\ frame.m = cfg.exit_month) => ENABLED ExitTransaction

C13_Witness ==
    /\ cfg.exit_month >= 1
    /\ Len(results) = 2
    /\ results[1].status = "refi_fail"
    /\ results[2].status = "exit" /\ results[2].month = cfg.exit_month
    /\ results[2].principal_at_refi > 0

\* Two calls with the same seed and iterations that both returned a batch.
BothReturned == prev.called /\ pc = "returned" /\ prev.raised = "none"

\* The number of variates the trials before trial k have drawn.
RECURSIVE DrawnBefore(_, _)
DrawnBefore(log, k) == IF k <= 1 THEN 0 ELSE DrawnBefore(log, k - 1) + Len(log[k - 1])

\* C14 as stated: the random values trial k draws do not depend on how many
\* values the trials before it drew or on their outcomes: in two calls with
\* the same seed trial k draws the same values (as far as both draw).
C14_TrialDrawsIndependent ==
    BothReturned =>
        \A k \in 1..Len(drawLog) :
            IsPrefix(drawLog[k], prev.drawLog[k]) \/ IsPrefix(prev.drawLog[k], drawLog[k])

\* C14 amended: all trials of a call draw from the one process-wide stream
\* that is seeded once per call; trial k draws the variates that follow, in
\* stream order, the ones the trials before it drew.
C14_SharedSequentialStream ==
    /\ \A k \in 1..Len(drawLog) :
          drawLog[k] = Variates(seed, DrawnBefore(drawLog, k), Len(drawLog[k]))
    /\ pc \notin {"call", "raised"} => rngPos = DrawnBefore(drawLog, Len(drawLog) + 1)

C14_Witness ==
    /\ BothReturned
    /\ Len(drawLog) = 2
    /\ Len(prev.drawLog[1]) = 6
    /\ Len(drawLog[1]) = 5
    /\ SubSeq(drawLog[2], 1, 5) # SubSeq(prev.drawLog[2], 1, 5)
    /\ drawLog[2] = Variates(seed, 5, Len(drawLog[2]))
    /\ prev.drawLog[2] = Variates(seed, 6, Len(prev.drawLog[2]))

\* C15: simulate_path and run_simulation leave every field of the shared
\* PFConfig unchanged (the capitalized_ratio_map construction 1.0,
\* stabilization 0.4, exit 0.0 included), and each call of simulate_path
\* starts from equity = initial_equity, principal = senior_loan and an empty
\* revenue history whatever earlier trials did.
C15_ConfigReadOnlyFreshStart ==
    [][/\ cfg' = cfg
       /\ cfg'.capitalized_ratio_map = [construction |-> 10, stabilization |-> 4, exit |-> 0]
       /\ (pc = "sample" /\ pc' \in {"cash", "fallout"}) =>
             /\ frame'.equity = cfg.initial_equity
             /\ frame'.principal = cfg.senior_loan
             /\ frame'.revenue_history = <<>>
             /\ frame'.principal_at_refi = 0
             /\ frame'.refi_loan_amount = 0
             /\ ~frame'.refinanced]_vars

C15_Witness ==
    /\ Len(results) = 1
    /\ results[1].status = "exit"
    /\ results[1].principal_at_refi > cfg.senior_loan
    /\ pc = "cash"
    /\ frame.m = 1
    /\ frame.equity = cfg.initial_equity
    /\ frame.principal = cfg.senior_loan
    /\ frame.revenue_history = <<>>

\* The irr values of the exit records of the batch, and whether they leave
\* the ratio without a denominator: no exit record, or no spread.
ExitIrrs == IrrColumn(results)

NoSpread == \A i, j \in 1..Len(ExitIrrs) : ExitIrrs[i] = ExitIrrs[j]

Appends == Len(results') = Len(results) + 1

Appended == results'[Len(results')]

\* C17: within one month the cash-flow step and the delay penalty come
\* first, then the insolvency check, then the refinancing check, then the
\* exit valuation: equity <= 0 gives the record default with month m,
\* final_equity 0 and irr -1.0 also in the refinancing month and in
\* exit_month, and a refi_fail in month exit_month takes precedence over
\* exit.
C17_TerminalCheckOrder ==
    [][/\ pc = "cash" =>
             /\ pc' = "insolvency"
             /\ frame'.equity = MonthCashFlow(cfg, [frame EXCEPT !.delay = 0]).equity
                                  - (IF frame.m = frame.completion_month
                                     THEN DelayPenalty(cfg, frame) ELSE 0)
       /\ (pc = "insolvency" /\ frame.equity <= 0) =>
             /\ Appends
             /\ Appended = [status |-> "default", month |-> frame.m,
                            final_equity |-> 0, irr |-> IrrTotalLoss]
       /\ (pc = "insolvency" /\ frame.equity > 0) => (pc' = "refi" /\ results' = results)
       /\ (pc = "refi" /\ ~Appends) => pc' \in {"exit", "raised"}
       /\ (Appends /\ Appended.status = "refi_fail") =>
             /\ pc = "refi"
             /\ frame.equity > 0
             /\ Appended.month = frame.m
       /\ (Appends /\ Appended.status = "exit") =>
             /\ pc = "exit"
             /\ frame.equity > 0
             /\ frame.m # frame.refi_month \/ frame.refinanced]_vars

C17_Witness ==
    /\ Len(results) = 2
    /\ results[1].status = "default"
    /\ results[1].month = cfg.exit_month
    /\ results[1].month = RefiMonth(CompletionMonth(cfg, drawLog[1][5]))
    /\ results[2].status = "default"
    /\ results[2].month < cfg.exit_month

\* The refinancing check of a live path of a valid configuration is taken.
AtRefiGate == ValidConfiguration(cfg) /\ pc = "refi" /\ frame.m = frame.refi_month

\* The months of the last 3 recorded revenues.
GateWindow ==
    {k \in 1..Len(frame.revenue_history) : k > Len(frame.revenue_history) - 3}

RECURSIVE SumRevenue(_)
SumRevenue(K) ==
    IF K = {} THEN 0
    ELSE LET k == CHOOSE x \in K : TRUE
         IN  frame.revenue_history[k] + SumRevenue(K \ {k})

\* Rolling NOI as the mean over the months K of the window, the current
\* month's revenue when K is empty.
NoiOver(K) == IF K = {} THEN frame.revenue ELSE SumRevenue(K) \div Cardinality(K)

\* implied valuation * LTV ceiling for a rolling NOI.
CeilingFor(noi) ==
    (((noi * 12 * 1000) \div cfg.cap_rate)
        * Triangular(cfg.target_refi_ltv_dist, Stream(seed, rngPos))) \div 100

\* The gate for a rolling NOI: refi_fail exactly when principal exceeds the
\* ceiling, and the record it gives.
GateDecides(noi) ==
    /\ frame.m = frame.completion_month + 3
    /\ frame.equity > 0
    /\ Appends <=> frame.principal > CeilingFor(noi)
    /\ Appends =>
          /\ Appended = [status |-> "refi_fail", month |-> frame.m,
                         final_equity |-> 0, irr |-> IrrTotalLoss,
                         principal_at_refi |-> frame.principal,
                         refi_loan_amount |-> CeilingFor(noi)]
          /\ Appended.principal_at_refi > Appended.refi_loan_amount
    /\ ~Appends => (pc' = "exit" /\ frame'.refinanced)

\* C18 as stated: rolling NOI is the mean of the non-zero values among the
\* last 3 recorded revenues.
C18_RefiGateNonZero ==
    [][AtRefiGate =>
          GateDecides(NoiOver({k \in GateWindow : frame.revenue_history[k] # 0}))]_vars

\* C18 amended: rolling NOI is the mean of the positive values among the
\* last 3 recorded revenues (the current month's revenue when none is
\* positive); refi_fail is returned by this check only.
C18_RefiGatePositive ==
    [][/\ AtRefiGate =>
             GateDecides(NoiOver({k \in GateWindow : frame.revenue_history[k] > 0}))
       /\ (ValidConfiguration(cfg) /\ Appends /\ Appended.status = "refi_fail") =>
             (pc = "refi" /\ frame.m = frame.refi_month)]_vars

C18_Witness ==
    /\ ValidConfiguration(cfg)
    /\ Len(results) = 1
    /\ results[1].status = "refi_fail"
    /\ results[1].refi_loan_amount > 0
    /\ pc = "exit"
    /\ frame.m = frame.refi_month
    /\ frame.refinanced
    /\ frame.refi_loan_amount >= frame.principal_at_refi
    /\ \E k \in GateWindow : frame.revenue_history[k] < 0
    /\ \E k \in GateWindow : frame.revenue_history[k] > 0

\* Control is inside the monthly loop of a path.
LoopPcs == {"cash", "insolvency", "refi", "exit"}

\* The rate of month m: the pre-refinancing sample up to and including the
\* refinancing month, the post-refinancing sample after it.
ActiveRate ==
    IF frame.m <= frame.refi_month THEN frame.pre_refi_rate ELSE frame.post_refi_rate

\* C19: monthly interest is principal * (active rate / 12); the active rate
\* is the path's pre-refinancing sample in every month up to and including
\* the refinancing month and its post-refinancing sample in every month
\* after a successful refinancing check; it changes at most once per path
\* and never back.
C19_RateSwitch ==
    [][/\ pc = "cash" =>
             /\ Interest(frame) = (frame.principal * ActiveRate) \div 1200
             /\ frame' = MonthCashFlow(cfg, [frame EXCEPT !.current_rate = ActiveRate])
             /\ frame.m > frame.refi_month => frame.refinanced
       /\ (pc \in LoopPcs /\ pc' \in LoopPcs /\ frame'.current_rate # frame.current_rate) =>
             /\ pc = "refi"
             /\ frame.m = frame.refi_month
             /\ ~frame.refinanced /\ frame'.refinanced
             /\ frame.current_rate = frame.pre_refi_rate
             /\ frame'.current_rate = frame.post_refi_rate
       /\ (pc \in LoopPcs /\ pc' \in LoopPcs) =>
             /\ frame.refinanced => frame'.refinanced
             /\ frame'.pre_refi_rate = frame.pre_refi_rate
             /\ frame'.post_refi_rate = frame.post_refi_rate]_vars

C19_Witness ==
    /\ pc = "insolvency"
    /\ frame.m = frame.refi_month + 3
    /\ frame.refinanced
    /\ frame.current_rate = frame.post_refi_rate
    /\ frame.post_refi_rate < frame.pre_refi_rate
    /\ frame.phase = "exit"
    /\ frame.principal < frame.principal_at_refi

\* The cash-flow step of a month of a valid configuration.
MonthStep == ValidConfiguration(cfg) /\ pc = "cash"

\* The month's phase and revenue are as given, the revenue is recorded and
\* the path's revenue samples stay what they are.
PhaseIs(phase, revenue) ==
    /\ frame'.phase = phase
    /\ frame'.revenue = revenue
    /\ frame'.revenue_history = Append(frame.revenue_history, revenue)
    /\ frame'.sampled_stab_rev = frame.sampled_stab_rev
    /\ frame'.sampled_post_rev = frame.sampled_post_rev
    /\ frame'.completion_month = frame.completion_month

\* C20 as stated: construction with revenue 0 when m < completion_month,
\* stabilization with the stabilization sample when completion_month <= m <
\* court_opening_month, post-opening/exit with the post-opening sample in
\* every month m >= court_opening_month, for every completion delay.
C20_PhaseByMonth ==
    [][MonthStep =>
          /\ frame.m < frame.completion_month => PhaseIs("construction", 0)
          /\ (frame.completion_month <= frame.m /\ frame.m < cfg.court_opening_month) =>
                PhaseIs("stabilization", frame.sampled_stab_rev)
          /\ frame.m >= cfg.court_opening_month =>
                PhaseIs("exit", frame.sampled_post_rev)]_vars

\* C20 amended: construction comes first: post-opening/exit holds in every
\* month m >= court_opening_month that is not before completion_month, and a
\* month before completion_month is construction with revenue 0 also at or
\* after court_opening_month.
C20_PhaseByMonthConstructionFirst ==
    [][MonthStep =>
          /\ frame.m < frame.completion_month => PhaseIs("construction", 0)
          /\ (frame.completion_month <= frame.m /\ frame.m < cfg.court_opening_month) =>
                PhaseIs("stabilization", frame.sampled_stab_rev)
          /\ (frame.completion_month <= frame.m /\ frame.m >= cfg.court_opening_month) =>
                PhaseIs("exit", frame.sampled_post_rev)]_vars

C20_Witness ==
    /\ ValidConfiguration(cfg)
    /\ pc = "insolvency"
    /\ frame.m >= cfg.court_opening_month
    /\ frame.m < frame.completion_month
    /\ frame.phase = "construction"
    /\ frame.revenue = 0
    /\ frame.sampled_post_rev > 0
    /\ frame.revenue_history = <<0, 0, 0>>

Min(a, b) == IF a <= b THEN a ELSE b

\* The quantities of the month a cash-flow step works on: the month's
\* capitalization ratio and interest, principal after capitalization (the
\* principal the cash-flow branch starts from), net cash flow n, and equity
\* after the branch, before the delay penalty of the month.
StepRatio == cfg.capitalized_ratio_map[frame'.phase]

StepPaidInterest == PaidInterest(Interest(frame), StepRatio)

StepPrincipal == frame.principal + CapitalizedInterest(Interest(frame), StepRatio)

StepNet == frame'.revenue - (cfg.monthly_fixed_cost + StepPaidInterest)

StepPenalty ==
    IF frame.m = frame.completion_month /\ frame.delay > 0
    THEN DelayPenalty(cfg, frame) ELSE 0

StepEquity == frame'.equity + StepPenalty

\* C21: with net cash flow n = revenue - (monthly_fixed_cost +
\* paid_interest): if n > 0 principal decreases by min(n, principal) and
\* equity increases by max(0, n - principal); if n <= 0 equity decreases by
\* -n and principal is unchanged; in both cases equity - principal changes
\* by exactly n.
C21_CashFlowStep ==
    [][MonthStep =>
          /\ StepNet > 0 =>
                /\ frame'.principal = StepPrincipal - Min(StepNet, StepPrincipal)
                /\ StepEquity = frame.equity + Max(0, StepNet - StepPrincipal)
                /\ StepNet <= StepPrincipal => StepEquity = frame.equity
          /\ StepNet <= 0 =>
                /\ StepEquity = frame.equity + StepNet
                /\ frame'.principal = StepPrincipal
          /\ (StepEquity - frame'.principal) - (frame.equity - StepPrincipal) = StepNet]_vars

C21_Witness ==
    /\ ValidConfiguration(cfg)
    /\ pc = "insolvency"
    /\ frame.principal = 0
    /\ frame.equity > cfg.initial_equity
    /\ frame.phase = "stabilization"
    /\ frame.m = frame.completion_month + 2

\* The split of the month's interest as the capitalization-ratio map
\* (construction 1.0, stabilization 0.4, after court opening 0.0) gives it.
SplitRatio ==
    CASE frame'.phase = "construction" -> 10
      [] frame'.phase = "stabilization" -> 4
      [] frame'.phase = "exit" -> 0

SplitInterest == (frame.principal * frame.current_rate) \div 1200

SplitCapitalized == (SplitInterest * SplitRatio) \div 10

SplitPaid == (SplitInterest * (10 - SplitRatio)) \div 10

\* The capitalized portion is added to principal and the remainder is paid
\* in cash with the month's net cash flow.
InterestSplitApplied ==
    /\ StepRatio = SplitRatio
    /\ (StepEquity - frame'.principal)
          - (frame.equity - (frame.principal + SplitCapitalized))
       = frame'.revenue - (cfg.monthly_fixed_cost + SplitPaid)
    /\ StepNet <= 0 => frame'.principal = frame.principal + SplitCapitalized

\* C22 as stated: interest * ratio is added to principal and interest *
\* (1 - ratio) is paid in cash, with ratio 1.0 in construction, 0.4 in
\* stabilization and 0.0 after court opening; in every construction month
\* paid interest is 0, equity decreases by exactly monthly_fixed_cost and
\* principal does not decrease.
C22_InterestSplit ==
    [][MonthStep =>
          /\ InterestSplitApplied
          /\ frame'.phase = "construction" =>
                /\ SplitPaid = 0
                /\ frame'.equity = frame.equity - cfg.monthly_fixed_cost
                /\ frame'.principal >= frame.principal]_vars

\* C22 amended: principal does not decrease in a construction month when the
\* path's sampled rate is non-negative; it grows by the whole interest of the
\* month, which is negative for a negative rate.
C22_InterestSplitSignedRate ==
    [][MonthStep =>
          /\ InterestSplitApplied
          /\ frame'.phase = "construction" =>
                /\ SplitPaid = 0
                /\ frame'.equity = frame.equity - cfg.monthly_fixed_cost
                /\ frame'.principal = frame.principal + SplitInterest
                /\ frame.current_rate >= 0 => frame'.principal >= frame.principal]_vars

C22_Witness ==
    /\ ValidConfiguration(cfg)
    /\ pc = "insolvency"
    /\ frame.phase = "construction"
    /\ frame.m = 4
    /\ frame.current_rate > 0
    /\ frame.principal > cfg.senior_loan
    /\ frame.equity = cfg.initial_equity - 4 * cfg.monthly_fixed_cost
    /\ frame.equity > 0

\* What the cash-flow step of the month takes from equity beyond the month's
\* cash flow.
Charged == MonthCashFlow(cfg, [frame EXCEPT !.delay = 0]).equity - frame'.equity

\* C23: the sampled completion delay is an integer in [0, 6]; the penalty
\* delay * monthly_fixed_cost * 0.6 is charged at most once per path, only
\* in the month m = completion_month and only when delay > 0, before the
\* insolvency check of that month; a path with delay 0 is never charged.
C23_DelayPenalty ==
    [][MonthStep =>
          /\ frame.delay \in 0..6
          /\ frame.completion_month = cfg.completion_target_month + frame.delay
          /\ frame.m = Len(frame.revenue_history) + 1
          /\ frame'.delay = frame.delay
          /\ frame'.completion_month = frame.completion_month
          /\ Charged = (IF frame.m = frame.completion_month /\ frame.delay > 0
                        THEN (frame.delay * cfg.monthly_fixed_cost * 6) \div 10
                        ELSE 0)
          /\ pc' = "insolvency"
          /\ (frame'.equity <= 0) = Insolvent(frame')]_vars

C23_Witness ==
    /\ ValidConfiguration(cfg)
    /\ pc = "insolvency"
    /\ frame.m = frame.completion_month
    /\ frame.delay = 3
    /\ frame.equity <= 0
    /\ frame.equity + DelayPenalty(cfg, frame) > 0
    /\ DelayPenalty(cfg, frame) = 36

\* ---------------------------------------------------------------------- C24
\* The exit valuation the claim states, from the state the exit test reads.
StatedFinalVal == (frame.revenue * 12 * 1000) \div cfg.cap_rate
StatedCostFraction == Uniform(cfg.exit_cost_range, Stream(seed, rngPos))
StatedExitEquity ==
    StatedFinalVal - frame.principal - ((StatedFinalVal * StatedCostFraction) \div 100)

ExitStep == ValidConfiguration(cfg) /\ pc = "exit" /\ frame.m = cfg.exit_month /\ Appends

\* C24 as stated: at m = exit_month the record has status exit, final_equity
\* = max(0, exit_equity) with exit_equity = final_val - principal - final_val
\* * cost_fraction and final_val = revenue * 12 / cap_rate; irr = -1.0
\* exactly when exit_equity <= 0, exactly when final_equity = 0 and
\* exit_multiple = 0; with exit_equity > 0 the irr is above -1.0.
C24_ExitValuation ==
    [][ExitStep =>
          /\ Appended.status = "exit"
          /\ Appended.final_equity = Max(0, StatedExitEquity)
          /\ (Appended.irr = IrrTotalLoss) = (StatedExitEquity <= 0)
          /\ (StatedExitEquity <= 0)
                = (Appended.final_equity = 0 /\ Appended.exit_multiple.num = 0)
          /\ (StatedExitEquity > 0 => Appended.irr # IrrTotalLoss)]_vars

\* C24 amended: the valuation, the floor and the zero exit multiple are as
\* stated and exit_equity <= 0 gives irr = -1.0; with exit_equity > 0 the irr
\* is at least -1.0, and it is -1.0 exactly when the annualized return
\* (exit_equity / initial_equity)^(12 / exit_month) is at most 2^-54, below
\* what the subtraction of 1 keeps in double precision.
C24_ExitValuationRounded ==
    [][ExitStep =>
          /\ Appended.status = "exit"
          /\ Appended.final_equity = Max(0, StatedExitEquity)
          /\ (StatedExitEquity <= 0 => Appended.irr = IrrTotalLoss)
          /\ (StatedExitEquity <= 0)
                = (Appended.final_equity = 0 /\ Appended.exit_multiple.num = 0)
          /\ (StatedExitEquity > 0 =>
                /\ Appended.exit_multiple.num = StatedExitEquity
                /\ (Appended.irr = IrrTotalLoss)
                     = (/\ 9 * cfg.exit_month < 31
                        /\ StatedExitEquity < cfg.initial_equity
                        /\ StatedExitEquity * StatedExitEquity
                              <= (cfg.initial_equity * cfg.initial_equity)
                                    \div Pow(2, 9 * cfg.exit_month))
                /\ (Appended.irr # IrrTotalLoss =>
                      Appended.irr = Irr(StatedExitEquity, cfg.initial_equity, cfg.exit_month)))]_vars

\* An exit that left equity and a positive exit multiple, with irr = -1.0,
\* next to an exit that left none.
C24_Witness ==
    /\ ValidConfiguration(cfg)
    /\ Len(results) = 2
    /\ \E i, j \in 1..2 :
          /\ results[i].status = "exit" /\ results[i].final_equity > 0
          /\ results[i].exit_multiple.num > 0 /\ results[i].irr = IrrTotalLoss
          /\ results[j].status = "exit" /\ results[j].final_equity = 0
          /\ results[j].exit_multiple.num = 0 /\ results[j].irr = IrrTotalLoss

\* ---------------------------------------------------------------------- C25
\* The path's two sampled rates are non-negative.
SampledRatesNonNegative == frame.pre_refi_rate >= 0 /\ frame.post_refi_rate >= 0

\* C25: with senior_loan > 0 and non-negative sampled interest rates,
\* principal >= 0 after every step of every month of every path
\* (capitalization does not lower it, the sweep floors it at 0), and the
\* principal_at_refi kept by the path and written to its record is never
\* negative.
C25_PrincipalNonNegative ==
    [][(cfg.senior_loan > 0 /\ pc \in LoopPcs /\ SampledRatesNonNegative) =>
          /\ frame.principal >= 0
          /\ frame.principal_at_refi >= 0
          /\ (pc' \in LoopPcs =>
                frame'.principal >= 0 /\ frame'.principal_at_refi >= 0)
          /\ (MonthStep =>
                /\ StepPrincipal >= frame.principal
                /\ frame'.principal = IF StepNet > 0
                                      THEN Max(0, StepPrincipal - StepNet)
                                      ELSE StepPrincipal)
          /\ (Appends /\ "principal_at_refi" \in DOMAIN Appended =>
                Appended.principal_at_refi >= 0)]_vars

\* The sweep repaid the whole loan before the refinancing month, and the
\* refinancing check recorded a principal of 0.
C25_Witness ==
    /\ cfg.senior_loan > 0
    /\ SampledRatesNonNegative
    /\ pc = "exit"
    /\ frame.refinanced
    /\ frame.m = frame.refi_month
    /\ frame.principal = 0
    /\ frame.principal_at_refi = 0
    /\ frame.refi_loan_amount > 0

\* ---------------------------------------------------------------------- C26
\* The refinancing check of lines 97-119 is being evaluated.
RefiChecked == AtRefiGate /\ (pc' = "exit" \/ Appends)

\* A path is evaluated at most once: no check was passed before this one, and
\* the month of the check is completion_month + 3.
CheckedAtMostOnce ==
    RefiChecked =>
        /\ ~frame.refinanced
        /\ frame.m = frame.completion_month + 3
        /\ (pc' = "exit" =>
              /\ frame'.refinanced
              /\ frame'.principal_at_refi <= frame'.refi_loan_amount)
        /\ (Appends => Appended.status = "refi_fail")

\* C26 as stated: the refinancing check is evaluated at most once on a path,
\* and every path that ends with status exit has had it evaluated and passed
\* in month completion_month + 3 <= exit_month before the exit valuation.
C26_RefiBeforeExit ==
    [][/\ CheckedAtMostOnce
       /\ (ExitStep =>
             /\ frame.refinanced
             /\ frame.completion_month + 3 <= cfg.exit_month)]_vars

\* C26 amended: the check is evaluated at most once, in month
\* completion_month + 3; a path that ends with status exit has passed it
\* exactly when completion_month + 3 <= exit_month, and otherwise exits
\* without any check, its record carrying principal_at_refi = 0 and
\* refi_loan_amount = 0.
C26_RefiBeforeExitWhenReached ==
    [][/\ CheckedAtMostOnce
       /\ (ExitStep =>
             /\ frame.refinanced = (frame.completion_month + 3 <= cfg.exit_month)
             /\ (frame.refinanced =>
                   /\ frame.m >= frame.refi_month
                   /\ Appended.principal_at_refi <= Appended.refi_loan_amount
                   /\ Appended.principal_at_refi = frame.principal_at_refi
                   /\ Appended.refi_loan_amount = frame.refi_loan_amount)
             /\ (~frame.refinanced =>
                   /\ Appended.status = "exit"
                   /\ Appended.principal_at_refi = 0
                   /\ Appended.refi_loan_amount = 0))]_vars

\* Two exits of one call: the first passed the check on a positive loan
\* ceiling, the second never reached its refinancing month.
C26_Witness ==
    /\ ValidConfiguration(cfg)
    /\ Len(results) = 2
    /\ \E i, j \in 1..2 :
          /\ results[i].status = "exit" /\ results[i].refi_loan_amount > 0
          /\ results[j].status = "exit" /\ results[j].refi_loan_amount = 0
          /\ results[j].final_equity > 0

====
